---- MODULE Spec2Model ----
(***************************************************************************)
(* Model of the profile Index of headscale-admin-acl (src/index/index.go). *)
(*                                                                         *)
(* The state is the Index object (files, mu), the part of the filesystem   *)
(* it owns (base directory, profiles directory, index.json, the content    *)
(* files, the ACL output file) and, for every caller, its position inside  *)
(* the operation it runs.  Strings are sequences of bytes, as in Go.       *)
(***************************************************************************)
EXTENDS Integers, Sequences, FiniteSets, TLC

VARIABLES
    baseKind,     \* what idxDir is on disk: "absent", "file", "dir", "rodir"
    profilesDir,  \* TRUE when <idxDir>/profiles exists
    idxFile,      \* profiles/index.json: <<>> when absent, <<content>> when present
    blobs,        \* content files: path -> bytes, for the paths that exist
    acl,          \* the output file aclFilename: <<>> when absent, <<bytes>> when present
    idx,          \* TRUE when CreateNewIndex has returned an Index
    files,        \* idx.files: profile name -> path
    mu,           \* idx.mu: NoThread when unlocked, else the holder
    pc,           \* per caller: the statement it is at
    loc,          \* per caller: parameters and local variables of its call
    handles,      \* number of open file handles (os.File not yet closed)
    nextId,       \* the next identifier uuid.NewRandom returns
    faults,       \* number of I/O errors the environment has produced
    budget,       \* number of I/O errors the environment produces at most
    pre,          \* history: files/idxFile/blobs/acl when the running call took the lock
    opened,       \* history: <<ok>> right after CreateNewIndex returned, else <<>>
    written,      \* history: name -> <<data>> of the latest Set, <<>> when not known
    renamed       \* history: <<>> or <<[old, new, content]>> of the latest rename

vars == <<baseKind, profilesDir, idxFile, blobs, acl, idx, files, mu, pc, loc,
          handles, nextId, faults, budget, pre, opened, written, renamed>>

diskVars == <<baseKind, profilesDir, idxFile, blobs, acl>>
histVars == <<pre, opened, written, renamed>>

----------------------------------------------------------------------------
(* Bounds of the model. *)

MaxIds == 2        \* identifiers uuid.NewRandom hands out
MaxFaults == 1     \* I/O errors injected

(* The callers of the Index methods; pc[t] = "off" when t makes no calls   *)
(* in a behaviour.  NoThread is the value of an unlocked mutex.            *)
Threads == {1, 2}
NoThread == 0

(* The names callers pass: two ASCII names ("a", "b") and a name that is   *)
(* one byte which is not valid UTF-8 (0xFF).  Go strings hold any bytes.   *)
Names == {<<97>>, <<98>>, <<255>>}

(* U+FFFD, the Unicode replacement rune, encoded in UTF-8. *)
ReplacementChar == <<239, 191, 189>>

(* Profile contents of different lengths. *)
Data == {<<1, 2>>, <<3>>}

----------------------------------------------------------------------------
(* Maps (Go map[string]IndexFileInfo) as functions with a finite domain. *)

EmptyMap == [k \in {} |-> <<>>]
MapPut(m, k, v) == [x \in (DOMAIN m) \cup {k} |-> IF x = k THEN v ELSE m[x]]
MapDelete(m, k) == [x \in (DOMAIN m) \ {k} |-> m[x]]

(* strings.Compare(a, b) < 0: bytewise lexicographic order. *)
StrLess(a, b) ==
    \E i \in 1..Len(b) :
        /\ \A j \in 1..(i - 1) : j <= Len(a) /\ a[j] = b[j]
        /\ (i > Len(a) \/ a[i] < b[i])

(* encoding/json writes a Go string as a JSON string coerced to valid      *)
(* UTF-8: every byte that does not start a valid encoding becomes U+FFFD.  *)
(* RuneLen is the length of the valid encoding that starts at s[i], or 0.  *)
IsCont(b) == b >= 128 /\ b <= 191

RuneLen(s, i) ==
    LET b == s[i]
        n == Len(s)
    IN  IF b < 128 THEN 1
        ELSE IF b >= 194 /\ b <= 223 /\ i + 1 <= n /\ IsCont(s[i + 1]) THEN 2
        ELSE IF /\ b >= 224 /\ b <= 239 /\ i + 2 <= n
                /\ IsCont(s[i + 1]) /\ IsCont(s[i + 2])
                /\ (b = 224 => s[i + 1] >= 160)
                /\ (b = 237 => s[i + 1] <= 159) THEN 3
        ELSE IF /\ b >= 240 /\ b <= 244 /\ i + 3 <= n
                /\ IsCont(s[i + 1]) /\ IsCont(s[i + 2]) /\ IsCont(s[i + 3])
                /\ (b = 240 => s[i + 1] >= 144)
                /\ (b = 244 => s[i + 1] <= 143) THEN 4
        ELSE 0

RECURSIVE ToValidUTF8From(_, _)
ToValidUTF8From(s, i) ==
    IF i > Len(s) THEN <<>>
    ELSE LET k == RuneLen(s, i)
         IN  IF k = 0 THEN ReplacementChar \o ToValidUTF8From(s, i + 1)
             ELSE SubSeq(s, i, i + k - 1) \o ToValidUTF8From(s, i + k)

(* The value a reader of the file gets for a string the encoder wrote. *)
JSONString(s) == ToValidUTF8From(s, 1)

(* json.MarshalIndent(idx.files): one member per key, keys in sorted order. *)
RECURSIVE MarshalMembers(_, _)
MarshalMembers(m, keys) ==
    IF keys = {} THEN <<>>
    ELSE LET k == CHOOSE x \in keys : \A o \in keys \ {x} : StrLess(x, o)
         IN  <<[key |-> JSONString(k), path |-> JSONString(m[k])]>>
                 \o MarshalMembers(m, keys \ {k})

(* The content of index.json: the members written and whether the closing  *)
(* brace was written (a write that failed leaves a prefix).                *)
Marshal(m) == [members |-> MarshalMembers(m, DOMAIN m), complete |-> TRUE]

(* json.Unmarshal(data, &idx.files): members are stored in order of        *)
(* appearance, a repeated key overwrites.                                  *)
RECURSIVE UnmarshalInto(_, _)
UnmarshalInto(m, members) ==
    IF members = <<>> THEN m
    ELSE UnmarshalInto(MapPut(m, Head(members).key, Head(members).path),
                       Tail(members))

Unmarshal(content) == UnmarshalInto(EmptyMap, content.members)

(* The contents a failed f.Write of the index can leave in the file. *)
Truncated(content) ==
    {[members |-> SubSeq(content.members, 1, k), complete |-> FALSE] :
        k \in 0..Len(content.members)}

(* The part of data a failed f.Write(data) has written: a proper prefix. *)
Prefixes(data) == {SubSeq(data, 1, k) : k \in 0..(Len(data) - 1)}

(* f.Write(data) on a file just opened: data replaces the first Len(data) *)
(* bytes of the file, what lies beyond them stays.                        *)
WriteBytes(cur, data) == data \o SubSeq(cur, Len(data) + 1, Len(cur))

(* (mutant) a path that does not depend on the identifier *)
ProfilePathFixed(id) == <<49>>

(* path.Join(idx.profileDirPath(), "<uuid>.hujson") for identifier id. *)
ProfilePath(id) == <<48 + id>>

----------------------------------------------------------------------------
(* Callers, history variables and initial states.                          *)
(*                                                                         *)
(* The history variables record what the properties below speak about:     *)
(* pre is the state in which the running call took the lock (or in which   *)
(* CreateNewIndex started), written[n] the data of the latest Set(n, data) *)
(* when it succeeded and n was neither removed nor renamed since, renamed  *)
(* the latest successful rename when no Set/Remove/Rename followed it.     *)

NoLoc == [op |-> "none", name |-> <<>>, newName |-> <<>>, data |-> <<>>,
          path |-> <<>>, isNew |-> FALSE, open |-> FALSE, res |-> "none"]
NoPre == [files |-> EmptyMap, idxFile |-> <<>>, blobs |-> EmptyMap, acl |-> <<>>,
          faults |-> 0, idx |-> FALSE]
NoWritten == [n \in Names |-> <<>>]

Snapshot == [files |-> files, idxFile |-> idxFile, blobs |-> blobs, acl |-> acl,
             faults |-> faults, idx |-> idx]

CanFail == faults < budget

Start ==
    /\ baseKind \in {"absent", "file", "dir", "rodir"}
    /\ profilesDir = FALSE
    /\ idxFile = <<>>
    /\ blobs = EmptyMap
    /\ acl = <<>>
    /\ idx = FALSE
    /\ files = EmptyMap
    /\ mu = NoThread
    /\ loc = [t \in Threads |-> NoLoc]
    /\ handles = 0
    /\ nextId = 1
    /\ faults = 0
    /\ budget = MaxFaults
    /\ pre = NoPre
    /\ opened = <<>>
    /\ written = NoWritten
    /\ renamed = <<>>

(* One caller: the calls on the Index come one after the other. *)
Init ==
    /\ Start
    /\ pc = [t \in Threads |-> IF t = 1 THEN "idle" ELSE "off"]

(* Two callers on an Index that CreateNewIndex has just returned for a    *)
(* directory without an index file.                                       *)
InitConc ==
    /\ baseKind = "dir"
    /\ profilesDir = TRUE
    /\ idxFile = <<Marshal(EmptyMap)>>
    /\ blobs = EmptyMap
    /\ acl = <<>>
    /\ idx = TRUE
    /\ files = EmptyMap
    /\ mu = NoThread
    /\ loc = [t \in Threads |-> NoLoc]
    /\ handles = 0
    /\ nextId = 1
    /\ faults = 0
    /\ budget = MaxFaults
    /\ pre = NoPre
    /\ opened = <<>>
    /\ written = NoWritten
    /\ renamed = <<>>
    /\ pc = [t \in Threads |-> "idle"]


----------------------------------------------------------------------------
(* CreateNewIndex(idxDir, aclFilename): runs before any caller holds the   *)
(* Index (the first open, or a reopen of the same directory when no call   *)
(* is in progress).  createIdxDir, initializeIdx and the first setIdxData  *)
(* run to completion inside it.                                            *)

OpenReturns(ok, newBase, newProfiles, newIdxFile, newFiles, failed) ==
    /\ baseKind' = newBase
    /\ profilesDir' = newProfiles
    /\ idxFile' = newIdxFile
    /\ idx' = ok
    /\ files' = newFiles
    /\ faults' = faults + (IF failed THEN 1 ELSE 0)
    /\ pre' = Snapshot
    /\ opened' = <<ok>>
    /\ written' = NoWritten
    /\ renamed' = <<>>
    /\ mu' = NoThread
    /\ UNCHANGED <<blobs, acl, pc, loc, handles, nextId, budget>>

CanOpen == \A t \in Threads : pc[t] \in {"idle", "off"}

\* stat.IsDir() is false, or the directory has no owner write bit
OpenBadBase ==
    /\ CanOpen
    /\ baseKind \in {"file", "rodir"}
    /\ OpenReturns(FALSE, baseKind, profilesDir, idxFile, EmptyMap, FALSE)

\* os.MkdirAll(idx.idxDir) fails
OpenMkdirBaseFails ==
    /\ CanOpen /\ CanFail
    /\ baseKind = "absent"
    /\ OpenReturns(FALSE, "absent", FALSE, idxFile, EmptyMap, TRUE)

\* os.MkdirAll(idx.profileDirPath()) fails
OpenMkdirProfilesFails ==
    /\ CanOpen /\ CanFail
    /\ baseKind \in {"absent", "dir"}
    /\ ~profilesDir
    /\ OpenReturns(FALSE, "dir", FALSE, idxFile, EmptyMap, TRUE)

\* no index file: setIdxData on the empty map; os.Create fails
OpenCreateFails ==
    /\ CanOpen /\ CanFail
    /\ baseKind \in {"absent", "dir"}
    /\ idxFile = <<>>
    /\ OpenReturns(FALSE, "dir", TRUE, <<>>, EmptyMap, TRUE)

\* no index file: setIdxData on the empty map; f.Write fails
OpenWriteFails ==
    /\ CanOpen /\ CanFail
    /\ baseKind \in {"absent", "dir"}
    /\ idxFile = <<>>
    /\ \E c \in Truncated(Marshal(EmptyMap)) :
           OpenReturns(FALSE, "dir", TRUE, <<c>>, EmptyMap, TRUE)

\* (mutant) no index file: the empty map is not persisted
OpenFreshNoPersist ==
    /\ CanOpen
    /\ baseKind \in {"absent", "dir"}
    /\ idxFile = <<>>
    /\ OpenReturns(TRUE, "dir", TRUE, <<>>, EmptyMap, FALSE)

\* no index file: the empty map is persisted
OpenFresh ==
    /\ CanOpen
    /\ baseKind \in {"absent", "dir"}
    /\ idxFile = <<>>
    /\ OpenReturns(TRUE, "dir", TRUE, <<Marshal(EmptyMap)>>, EmptyMap, FALSE)

\* the index file exists; os.ReadFile fails
OpenReadFails ==
    /\ CanOpen /\ CanFail
    /\ baseKind = "dir"
    /\ idxFile # <<>>
    /\ OpenReturns(FALSE, "dir", TRUE, idxFile, EmptyMap, TRUE)

\* the index file exists but is not a complete JSON document
OpenParseFails ==
    /\ CanOpen
    /\ baseKind = "dir"
    /\ idxFile # <<>>
    /\ ~idxFile[1].complete
    /\ OpenReturns(FALSE, "dir", TRUE, idxFile, EmptyMap, FALSE)

\* the index file exists and is loaded
OpenLoad ==
    /\ CanOpen
    /\ baseKind = "dir"
    /\ idxFile # <<>>
    /\ idxFile[1].complete
    /\ OpenReturns(TRUE, "dir", TRUE, idxFile, Unmarshal(idxFile[1]), FALSE)

CreateNewIndex ==
    \/ OpenBadBase
    \/ OpenMkdirBaseFails
    \/ OpenMkdirProfilesFails
    \/ OpenCreateFails
    \/ OpenWriteFails
    \/ OpenFresh
    \/ OpenReadFails
    \/ OpenParseFails
    \/ OpenLoad

----------------------------------------------------------------------------
(* A caller enters Set, Remove, RenameProfile or Apply and reaches         *)
(* idx.mu.Lock().                                                          *)

Call(t) ==
    /\ idx
    /\ pc[t] = "idle"
    /\ pc' = [pc EXCEPT ![t] = "lock"]
    /\ UNCHANGED <<diskVars, idx, files, mu, loc, handles, nextId, faults, histVars, budget>>

\* (mutant) Lock that does not wait for the holder
MuLockNoWait(t) == mu' = t

\* sync.Mutex.Lock: blocks until the mutex is free
MuLock(t) == mu = NoThread /\ mu' = t

Enter(t, op, name, newName, data, first) ==
    /\ pc[t] = "lock"
    /\ MuLock(t)
    /\ pc' = [pc EXCEPT ![t] = first]
    /\ loc' = [loc EXCEPT ![t] = [NoLoc EXCEPT !.op = op, !.name = name,
                                               !.newName = newName, !.data = data]]
    /\ pre' = Snapshot
    /\ opened' = <<>>
    /\ UNCHANGED <<diskVars, idx, files, handles, nextId, faults, budget,
                   written, renamed>>

Goto(t, label) == pc' = [pc EXCEPT ![t] = label]
Fail(t, res) ==
    /\ pc' = [pc EXCEPT ![t] = "ret"]
    /\ loc' = [loc EXCEPT ![t].res = res]

----------------------------------------------------------------------------
(* setIdxData: rewrite profiles/index.json from idx.files. *)

\* f, err := os.Create(idx.profileIndexPath())
IdxCreate(t) ==
    /\ pc[t] = "idx_create"
    /\ \/ /\ CanFail
          /\ faults' = faults + 1
          /\ Fail(t, "io")
          /\ UNCHANGED <<idxFile, handles>>
       \/ /\ idxFile' = <<[members |-> <<>>, complete |-> FALSE]>>
          /\ handles' = handles + 1
          /\ Goto(t, "idx_write")
          /\ UNCHANGED <<faults, loc>>
    /\ UNCHANGED <<baseKind, profilesDir, blobs, acl, idx, files, mu, nextId,
                   histVars, budget>>

\* (mutant) setIdxData that closes the index file only after a successful write
IdxWriteCloseOnSuccess(t) ==
    /\ pc[t] = "idx_write"
    /\ \/ /\ CanFail
          /\ faults' = faults + 1
          /\ idxFile' \in {<<c>> : c \in Truncated(Marshal(files))}
          /\ loc' = [loc EXCEPT ![t].res = "io"]
          /\ UNCHANGED handles
       \/ /\ idxFile' = <<Marshal(files)>>
          /\ loc' = [loc EXCEPT ![t].res = "ok"]
          /\ handles' = handles - 1
          /\ UNCHANGED faults
    /\ Goto(t, "ret")
    /\ UNCHANGED <<baseKind, profilesDir, blobs, acl, idx, files, mu, nextId,
                   histVars, budget>>

\* data := json.MarshalIndent(idx.files); f.Write(data); deferred f.Close()
IdxWrite(t) ==
    /\ pc[t] = "idx_write"
    /\ \/ /\ CanFail
          /\ faults' = faults + 1
          /\ idxFile' \in {<<c>> : c \in Truncated(Marshal(files))}
          /\ loc' = [loc EXCEPT ![t].res = "io"]
       \/ /\ idxFile' = <<Marshal(files)>>
          /\ loc' = [loc EXCEPT ![t].res = "ok"]
          /\ UNCHANGED faults
    /\ handles' = handles - 1
    /\ Goto(t, "ret")
    /\ UNCHANGED <<baseKind, profilesDir, blobs, acl, idx, files, mu, nextId,
                   histVars, budget>>


----------------------------------------------------------------------------
(* Remove(profileName) *)

RemoveLock(t) ==
    \E name \in Names : Enter(t, "Remove", name, <<>>, <<>>, "rm_delete")

\* (mutant) Remove that reports a name that is not in the map
RemoveDeleteStrict(t) ==
    /\ pc[t] = "rm_delete"
    /\ IF loc[t].name \in DOMAIN files
       THEN /\ files' = MapDelete(files, loc[t].name)
            /\ Goto(t, "idx_create")
            /\ UNCHANGED loc
       ELSE /\ Fail(t, "ErrProfileNotFound")
            /\ UNCHANGED files
    /\ UNCHANGED <<diskVars, idx, mu, handles, nextId, faults, histVars, budget>>

\* (mutant) Remove that also deletes the content file
RemoveDeleteWithFile(t) ==
    /\ pc[t] = "rm_delete"
    /\ files' = MapDelete(files, loc[t].name)
    /\ blobs' = IF loc[t].name \in DOMAIN files
                THEN MapDelete(blobs, files[loc[t].name]) ELSE blobs
    /\ Goto(t, "idx_create")
    /\ UNCHANGED <<baseKind, profilesDir, idxFile, acl, idx, mu, loc, handles,
                   nextId, faults, histVars, budget>>

\* delete(idx.files, profileName); return idx.setIdxData()
RemoveDelete(t) ==
    /\ pc[t] = "rm_delete"
    /\ files' = MapDelete(files, loc[t].name)
    /\ Goto(t, "idx_create")
    /\ UNCHANGED <<diskVars, idx, mu, loc, handles, nextId, faults, histVars, budget>>

----------------------------------------------------------------------------
(* Set(profileName, profileData) *)

\* the model hands out MaxIds identifiers: a Set that needs one more does not start
SetLock(t) ==
    \E name \in Names, data \in Data :
        /\ name \in DOMAIN files \/ nextId <= MaxIds
        /\ Enter(t, "Set", name, <<>>, data, "set_lookup")

\* take the existing path, or generate a new UUIDv4 and build the path
SetLookup(t) ==
    /\ pc[t] = "set_lookup"
    /\ \/ /\ loc[t].name \in DOMAIN files
          /\ loc' = [loc EXCEPT ![t].path = files[loc[t].name]]
          /\ Goto(t, "set_create")
          /\ UNCHANGED <<nextId, faults>>
       \/ /\ loc[t].name \notin DOMAIN files
          /\ nextId <= MaxIds
          /\ loc' = [loc EXCEPT ![t].path = ProfilePath(nextId), ![t].isNew = TRUE]
          /\ nextId' = nextId + 1
          /\ Goto(t, "set_create")
          /\ UNCHANGED faults
       \/ /\ loc[t].name \notin DOMAIN files    \* uuid.NewRandom fails
          /\ CanFail
          /\ faults' = faults + 1
          /\ Fail(t, "io")
          /\ UNCHANGED nextId
    /\ UNCHANGED <<diskVars, idx, files, mu, handles, histVars, budget>>

\* io.ReadAll(f): the bytes of the file (none once the file is gone)
ReadAll(fs, path) == IF path \in DOMAIN fs THEN fs[path] ELSE <<>>

\* (mutant) the file is opened without O_TRUNC: its old bytes stay
CreateFileNoTruncate(fs, path) == MapPut(fs, path, ReadAll(fs, path))

\* os.Create: the file exists and is empty afterwards
CreateFile(fs, path) == MapPut(fs, path, <<>>)

\* f, err := os.Create(profilePath); defer f.Close()
SetCreate(t) ==
    /\ pc[t] = "set_create"
    /\ \/ /\ CanFail
          /\ faults' = faults + 1
          /\ Fail(t, "io")
          /\ UNCHANGED <<blobs, handles>>
       \/ /\ blobs' = CreateFile(blobs, loc[t].path)
          /\ handles' = handles + 1
          /\ loc' = [loc EXCEPT ![t].open = TRUE]
          /\ Goto(t, "set_write")
          /\ UNCHANGED faults
    /\ UNCHANGED <<baseKind, profilesDir, idxFile, acl, idx, files, mu, nextId,
                   histVars, budget>>

\* _, err = f.Write(profileData); on error os.Remove(profilePath)
SetWrite(t) ==
    /\ pc[t] = "set_write"
    /\ \/ /\ CanFail
          /\ Prefixes(loc[t].data) # {}
          /\ faults' = faults + 1
          /\ blobs' = MapDelete(blobs, loc[t].path)
          /\ Fail(t, "io")
       \/ /\ blobs' = MapPut(blobs, loc[t].path,
                           WriteBytes(ReadAll(blobs, loc[t].path), loc[t].data))
          /\ Goto(t, "set_record")
          /\ UNCHANGED <<faults, loc>>
    /\ UNCHANGED <<baseKind, profilesDir, idxFile, acl, idx, files, mu, handles,
                   nextId, histVars, budget>>

\* if isNew { idx.files[profileName] = IndexFileInfo{Path: profilePath} }
SetRecord(t) ==
    /\ pc[t] = "set_record"
    /\ files' = IF loc[t].isNew THEN MapPut(files, loc[t].name, loc[t].path)
                ELSE files
    /\ Goto(t, "idx_create")
    /\ UNCHANGED <<diskVars, idx, mu, loc, handles, nextId, faults, histVars, budget>>

----------------------------------------------------------------------------
(* RenameProfile(profileNameOld, profileNameNew) *)

RenameLock(t) ==
    \E old \in Names, new \in Names :
        Enter(t, "Rename", old, new, <<>>, "rn_check")

\* (mutant) the check of the new name is missing
RenameCheckNoConflict(t) ==
    /\ pc[t] = "rn_check"
    /\ IF loc[t].name \notin DOMAIN files THEN Fail(t, "ErrProfileNotFound")
       ELSE Goto(t, "rn_move") /\ UNCHANGED loc
    /\ UNCHANGED <<diskVars, idx, files, mu, handles, nextId, faults, histVars, budget>>

\* (mutant) the new name is checked before the old one
RenameCheckConflictFirst(t) ==
    /\ pc[t] = "rn_check"
    /\ IF loc[t].newName \in DOMAIN files THEN Fail(t, "ErrProfileExists")
       ELSE IF loc[t].name \notin DOMAIN files THEN Fail(t, "ErrProfileNotFound")
       ELSE Goto(t, "rn_move") /\ UNCHANGED loc
    /\ UNCHANGED <<diskVars, idx, files, mu, handles, nextId, faults, histVars, budget>>

\* the two existence checks
RenameCheck(t) ==
    /\ pc[t] = "rn_check"
    /\ IF loc[t].name \notin DOMAIN files THEN Fail(t, "ErrProfileNotFound")
       ELSE IF loc[t].newName \in DOMAIN files THEN Fail(t, "ErrProfileExists")
       ELSE Goto(t, "rn_move") /\ UNCHANGED loc
    /\ UNCHANGED <<diskVars, idx, files, mu, handles, nextId, faults, histVars, budget>>

\* (mutant) the old key is not deleted
MoveEntryKeepOld(m, old, new) ==
    MapPut(m, new, IF old \in DOMAIN m THEN m[old] ELSE <<>>)

\* idx.files[new] = idx.files[old] (the zero IndexFileInfo when old is missing)
MoveEntry(m, old, new) ==
    MapDelete(MapPut(m, new, IF old \in DOMAIN m THEN m[old] ELSE <<>>), old)

RenameMove(t) ==
    /\ pc[t] = "rn_move"
    /\ files' = MoveEntry(files, loc[t].name, loc[t].newName)
    /\ Goto(t, "idx_create")
    /\ UNCHANGED <<diskVars, idx, mu, loc, handles, nextId, faults, histVars, budget>>


----------------------------------------------------------------------------
(* Apply(profileName) and setAclData(data) *)

ApplyLock(t) ==
    \E name \in Names : Enter(t, "Apply", name, <<>>, <<>>, "ap_lookup")

\* if info, ok := idx.files[profileName]; ok { ... } return ErrProfileNotFound
ApplyLookup(t) ==
    /\ pc[t] = "ap_lookup"
    /\ IF loc[t].name \in DOMAIN files
       THEN /\ loc' = [loc EXCEPT ![t].path = files[loc[t].name]]
            /\ Goto(t, "ap_open")
       ELSE Fail(t, "ErrProfileNotFound")
    /\ UNCHANGED <<diskVars, idx, files, mu, handles, nextId, faults, histVars, budget>>

\* (mutant) Apply that opens the content file with os.Create
ApplyOpenCreate(t) ==
    /\ pc[t] = "ap_open"
    /\ loc[t].path \in DOMAIN blobs
    /\ blobs' = CreateFile(blobs, loc[t].path)
    /\ handles' = handles + 1
    /\ loc' = [loc EXCEPT ![t].open = TRUE]
    /\ Goto(t, "ap_read")
    /\ UNCHANGED <<baseKind, profilesDir, idxFile, acl, idx, files, mu, nextId,
                   faults, histVars, budget>>

\* (mutant) Apply that creates the output file before it reads the content
ApplyOpenOutputFirst(t) ==
    /\ pc[t] = "ap_open"
    /\ loc[t].path \in DOMAIN blobs
    /\ acl' = << <<>> >>
    /\ handles' = handles + 1
    /\ loc' = [loc EXCEPT ![t].open = TRUE]
    /\ Goto(t, "ap_read")
    /\ UNCHANGED <<baseKind, profilesDir, idxFile, blobs, idx, files, mu, nextId,
                   faults, histVars, budget>>

\* f, err := os.Open(info.Path); defer f.Close()
ApplyOpen(t) ==
    /\ pc[t] = "ap_open"
    /\ \/ /\ loc[t].path \notin DOMAIN blobs    \* no such file
          /\ Fail(t, "io")
          /\ UNCHANGED <<faults, handles>>
       \/ /\ loc[t].path \in DOMAIN blobs
          /\ CanFail
          /\ faults' = faults + 1
          /\ Fail(t, "io")
          /\ UNCHANGED handles
       \/ /\ loc[t].path \in DOMAIN blobs
          /\ handles' = handles + 1
          /\ loc' = [loc EXCEPT ![t].open = TRUE]
          /\ Goto(t, "ap_read")
          /\ UNCHANGED faults
    /\ UNCHANGED <<diskVars, idx, files, mu, nextId, histVars, budget>>

\* data, err := io.ReadAll(f)
ApplyRead(t) ==
    /\ pc[t] = "ap_read"
    /\ \/ /\ CanFail
          /\ faults' = faults + 1
          /\ Fail(t, "io")
       \/ /\ loc' = [loc EXCEPT ![t].data = ReadAll(blobs, loc[t].path)]
          /\ Goto(t, "acl_create")
          /\ UNCHANGED faults
    /\ UNCHANGED <<diskVars, idx, files, mu, handles, nextId, histVars, budget>>

\* setAclData: f, err := os.Create(idx.aclFilename); defer f.Close()
AclCreate(t) ==
    /\ pc[t] = "acl_create"
    /\ \/ /\ CanFail
          /\ faults' = faults + 1
          /\ Fail(t, "io")
          /\ UNCHANGED <<acl, handles>>
       \/ /\ acl' = << <<>> >>
          /\ handles' = handles + 1
          /\ Goto(t, "acl_write")
          /\ UNCHANGED <<faults, loc>>
    /\ UNCHANGED <<baseKind, profilesDir, idxFile, blobs, idx, files, mu, nextId,
                   histVars, budget>>

\* the bytes of the output file
AclBytes == IF acl = <<>> THEN <<>> ELSE acl[1]

\* setAclData: _, err = f.Write(data); deferred f.Close()
AclWrite(t) ==
    /\ pc[t] = "acl_write"
    /\ \/ /\ CanFail
          /\ faults' = faults + 1
          /\ \E p \in Prefixes(loc[t].data) : acl' = <<WriteBytes(AclBytes, p)>>
          /\ loc' = [loc EXCEPT ![t].res = "io"]
       \/ /\ acl' = <<WriteBytes(AclBytes, loc[t].data)>>
          /\ loc' = [loc EXCEPT ![t].res = "ok"]
          /\ UNCHANGED faults
    /\ handles' = handles - 1
    /\ Goto(t, "ret")
    /\ UNCHANGED <<baseKind, profilesDir, idxFile, blobs, idx, files, mu, nextId,
                   histVars, budget>>

----------------------------------------------------------------------------
(* The return of Set, Remove, RenameProfile or Apply: the deferred         *)
(* f.Close() of the call's own file, then the deferred idx.mu.Unlock().    *)

Mutators == {"Set", "Remove", "Rename"}

\* (mutant) Unlock that is skipped when the call returns an error
MuUnlockOnSuccess(t) == mu' = IF loc[t].res = "ok" THEN NoThread ELSE mu

\* sync.Mutex.Unlock
MuUnlock(t) == mu' = NoThread

\* what Apply(name) copies to the output when no I/O error occurs:
\* <<bytes>>, or <<>> when it cannot succeed
Content(fs, bl, name) ==
    IF name \in DOMAIN fs /\ fs[name] \in DOMAIN bl THEN <<bl[fs[name]]>> ELSE <<>>

Return(t) ==
    LET c == loc[t]
        moved == c.op = "Rename" /\ c.res \in {"ok", "io"}
    IN  /\ pc[t] = "ret"
        /\ handles' = handles - (IF c.open THEN 1 ELSE 0)
        /\ MuUnlock(t)
        /\ pc' = [pc EXCEPT ![t] = "idle"]
        /\ loc' = [loc EXCEPT ![t] = NoLoc]
        /\ pre' = NoPre
        /\ opened' = <<>>
        /\ written' =
             IF c.op = "Set"
             THEN [written EXCEPT ![c.name] = IF c.res = "ok" THEN <<c.data>> ELSE <<>>]
             ELSE IF c.op = "Remove" THEN [written EXCEPT ![c.name] = <<>>]
             ELSE IF moved THEN [written EXCEPT ![c.name] = <<>>, ![c.newName] = <<>>]
             ELSE written
        /\ renamed' =
             IF c.op = "Rename" /\ c.res = "ok"
             THEN <<[old |-> c.name, new |-> c.newName,
                     content |-> Content(pre.files, pre.blobs, c.name)]>>
             ELSE IF c.op \in Mutators THEN <<>>
             ELSE renamed
        /\ UNCHANGED <<diskVars, idx, files, nextId, faults, budget>>

----------------------------------------------------------------------------

Step(t) ==
    \/ Call(t)
    \/ SetLock(t) \/ SetLookup(t) \/ SetCreate(t) \/ SetWrite(t) \/ SetRecord(t)
    \/ RemoveLock(t) \/ RemoveDelete(t)
    \/ RenameLock(t) \/ RenameCheck(t) \/ RenameMove(t)
    \/ ApplyLock(t) \/ ApplyLookup(t) \/ ApplyOpen(t) \/ ApplyRead(t)
    \/ AclCreate(t) \/ AclWrite(t)
    \/ IdxCreate(t) \/ IdxWrite(t)
    \/ Return(t)

Next == CreateNewIndex \/ \E t \in Threads : Step(t)

Spec == Init /\ [][Next]_vars

NextConc == \E t \in Threads : Step(t)

SpecConc == InitConc /\ [][NextConc]_vars

(* One caller on a freshly opened Index, in an environment that produces   *)
(* one I/O error more: two calls of a behaviour can fail.                  *)
InitTwoFaults ==
    /\ baseKind = "dir"
    /\ profilesDir = TRUE
    /\ idxFile = <<Marshal(EmptyMap)>>
    /\ blobs = EmptyMap
    /\ acl = <<>>
    /\ idx = TRUE
    /\ files = EmptyMap
    /\ mu = NoThread
    /\ loc = [t \in Threads |-> NoLoc]
    /\ handles = 0
    /\ nextId = 1
    /\ faults = 0
    /\ budget = MaxFaults + 1
    /\ pre = NoPre
    /\ opened = <<>>
    /\ written = NoWritten
    /\ renamed = <<>>
    /\ pc = [t \in Threads |-> IF t = 1 THEN "idle" ELSE "off"]

SpecTwoFaults == InitTwoFaults /\ [][NextConc]_vars

(* Scheduling.  A caller that has taken the lock keeps running and its     *)
(* I/O terminates: weak fairness on the steps between Lock and the return. *)
(* sync.Mutex does not starve a waiter (a waiter that fails to acquire the *)
(* mutex for 1ms puts it in starvation mode, where Unlock hands it to the  *)
(* waiter at the front of the queue): strong fairness on the acquisition.  *)
(* Nothing obliges a caller to make a call.                                *)
Acquire(t) == SetLock(t) \/ RemoveLock(t) \/ RenameLock(t) \/ ApplyLock(t)

Body(t) ==
    \/ SetLookup(t) \/ SetCreate(t) \/ SetWrite(t) \/ SetRecord(t)
    \/ RemoveDelete(t)
    \/ RenameCheck(t) \/ RenameMove(t)
    \/ ApplyLookup(t) \/ ApplyOpen(t) \/ ApplyRead(t)
    \/ AclCreate(t) \/ AclWrite(t)
    \/ IdxCreate(t) \/ IdxWrite(t)
    \/ Return(t)

Fairness == \A t \in Threads : WF_vars(Body(t)) /\ SF_vars(Acquire(t))

(* Two callers on a freshly opened Index; the identifier uuid.NewRandom    *)
(* returns next is the last one the model hands out.                       *)
InitFair ==
    /\ baseKind = "dir"
    /\ profilesDir = TRUE
    /\ idxFile = <<Marshal(EmptyMap)>>
    /\ blobs = EmptyMap
    /\ acl = <<>>
    /\ idx = TRUE
    /\ files = EmptyMap
    /\ mu = NoThread
    /\ loc = [t \in Threads |-> NoLoc]
    /\ handles = 0
    /\ nextId = MaxIds
    /\ faults = 0
    /\ budget = MaxFaults
    /\ pre = NoPre
    /\ opened = <<>>
    /\ written = NoWritten
    /\ renamed = <<>>
    /\ pc = [t \in Threads |-> "idle"]

SpecFair == InitFair /\ [][NextConc]_vars /\ Fairness


----------------------------------------------------------------------------
(* Properties.  A call is "at its return" when pc[t] = "ret": its body has *)
(* run, loc[t].res is the error it returns, and only the deferred Close    *)
(* and Unlock remain; pre is the state in which it took the lock.          *)

Ret(t, op) == pc[t] = "ret" /\ loc[t].op = op
InBody(t) == pc[t] \notin {"idle", "lock", "off"}
Quiescent == \A t \in Threads : ~InBody(t)

\* C1: a successful Apply(name) leaves in the output file exactly the data of
\* the most recent Set(name, data), when every Set of that name succeeded and
\* the other calls were on other names.
C1_ApplyCopiesLatestSet ==
    \A t \in Threads :
        (Ret(t, "Apply") /\ loc[t].res = "ok" /\ written[loc[t].name] # <<>>)
            => acl = written[loc[t].name]

\* C1 witness: Apply returns success for a name that was Set, while another
\* name holds other data.
C1_Witness ==
    \E t \in Threads, other \in Names :
        /\ Ret(t, "Apply") /\ loc[t].res = "ok"
        /\ written[loc[t].name] # <<>>
        /\ other # loc[t].name
        /\ written[other] # <<>>
        /\ written[other] # written[loc[t].name]

\* C2 as stated: RenameProfile(old, new) with new present returns
\* ErrProfileExists and changes neither the map, the content files nor the
\* index file (stated for the runs in which no I/O error has occurred).
C2_RenameOntoExisting ==
    \A t \in Threads :
        (faults = 0 /\ Ret(t, "Rename") /\ loc[t].newName \in DOMAIN pre.files)
            => /\ loc[t].res = "ErrProfileExists"
               /\ files = pre.files
               /\ blobs = pre.blobs
               /\ idxFile = pre.idxFile

\* C2 amended: RenameProfile(old, new) with old present and new present
\* (new = old included) returns ErrProfileExists and changes neither the map,
\* the content files nor the index file.
C2_RenameOntoExistingOldPresent ==
    \A t \in Threads :
        (/\ Ret(t, "Rename")
         /\ loc[t].name \in DOMAIN pre.files
         /\ loc[t].newName \in DOMAIN pre.files)
            => /\ loc[t].res = "ErrProfileExists"
               /\ files = pre.files
               /\ blobs = pre.blobs
               /\ idxFile = pre.idxFile

\* C2 witness: a rename onto another existing name returns ErrProfileExists.
C2_Witness ==
    \E t \in Threads :
        /\ Ret(t, "Rename")
        /\ loc[t].name # loc[t].newName
        /\ {loc[t].name, loc[t].newName} \subseteq DOMAIN pre.files
        /\ loc[t].res = "ErrProfileExists"

\* C3: a successful RenameProfile(old, new) leaves new on the path old had,
\* old gone and the content files untouched; after it a successful Apply(new)
\* leaves in the output file what Apply(old) would have copied before the
\* rename, and Apply(old) returns ErrProfileNotFound.
C3_RenameThenApply ==
    \A t \in Threads :
        /\ (Ret(t, "Rename") /\ loc[t].res = "ok")
              => /\ loc[t].name \in DOMAIN pre.files
                 /\ loc[t].name \notin DOMAIN files
                 /\ loc[t].newName \in DOMAIN files
                 /\ files[loc[t].newName] = pre.files[loc[t].name]
                 /\ blobs = pre.blobs
        /\ (Ret(t, "Apply") /\ renamed # <<>>)
              => /\ (loc[t].name = renamed[1].new /\ loc[t].res = "ok")
                      => acl = renamed[1].content
                 /\ loc[t].name = renamed[1].old
                      => loc[t].res = "ErrProfileNotFound"

\* C3 witness: Set(test1), Set(test2), Rename(test2, test3), Apply(test3):
\* Apply of the new name succeeds while another profile is present.
C3_Witness ==
    \E t \in Threads :
        /\ Ret(t, "Apply") /\ loc[t].res = "ok"
        /\ renamed # <<>>
        /\ loc[t].name = renamed[1].new
        /\ acl = renamed[1].content
        /\ DOMAIN files \ {loc[t].name} # {}

\* C4: RenameProfile(old, _) and Apply(name) on a name that is not in the map
\* return ErrProfileNotFound and change neither the map, the index file, the
\* content files nor the output file.
C4_NotFoundChangesNothing ==
    \A t \in Threads :
        ((Ret(t, "Rename") \/ Ret(t, "Apply")) /\ loc[t].name \notin DOMAIN pre.files)
            => /\ loc[t].res = "ErrProfileNotFound"
               /\ files = pre.files
               /\ idxFile = pre.idxFile
               /\ blobs = pre.blobs
               /\ acl = pre.acl

\* C4 witness: a rename of a missing name onto a name that is present.
C4_Witness ==
    \E t \in Threads :
        /\ Ret(t, "Rename")
        /\ loc[t].name \notin DOMAIN pre.files
        /\ loc[t].newName \in DOMAIN pre.files
        /\ loc[t].res = "ErrProfileNotFound"

\* C5: when Set, Remove or RenameProfile returns success, the index file holds
\* exactly the entries of the map: the same names, each with the same path.
C5_IndexFileHoldsMap ==
    \A t \in Threads :
        (pc[t] = "ret" /\ loc[t].op \in Mutators /\ loc[t].res = "ok")
            => /\ idxFile # <<>>
               /\ idxFile[1].complete
               /\ Unmarshal(idxFile[1]) = files

\* C6: at most one of Set, Remove, RenameProfile and Apply is inside its body
\* at any time, and the one that is holds the mutex.
C6_MutualExclusion ==
    \A t \in Threads :
        InBody(t) => (mu = t /\ \A u \in Threads \ {t} : ~InBody(u))

\* C6 witness: one caller is writing a content file while the other waits
\* at Lock.
C6_Witness ==
    \E t \in Threads, u \in Threads :
        pc[t] = "set_write" /\ pc[u] = "lock"

\* C7: a reopen after successful calls (the index file is the one written
\* from the map) gives a map with the same names on the same paths.
C7_ReopenSameMap ==
    (opened = <<TRUE>> /\ pre.idx /\ pre.idxFile = <<Marshal(pre.files)>>)
        => files = pre.files

\* C8: Remove(name) returns an error only when persisting fails; on success the
\* map is the old one without name, the index file is written from it, and a
\* Remove(name) that follows a successful Remove(name) (name absent, index
\* file written from the map) leaves map and index file as they were.
C8_RemoveIdempotent ==
    \A t \in Threads :
        Ret(t, "Remove")
            => /\ loc[t].res \in {"ok", "io"}
               /\ loc[t].res = "io" => faults > pre.faults
               /\ loc[t].res = "ok"
                    => /\ files = MapDelete(pre.files, loc[t].name)
                       /\ idxFile = <<Marshal(files)>>
                       /\ (/\ loc[t].name \notin DOMAIN pre.files
                           /\ pre.idxFile = <<Marshal(pre.files)>>)
                             => (files = pre.files /\ idxFile = pre.idxFile)

\* C8 witness: a successful Remove of a name that is already absent, in the
\* state a successful Remove leaves (an orphaned content file, another entry).
C8_Witness ==
    \E t \in Threads :
        /\ Ret(t, "Remove") /\ loc[t].res = "ok"
        /\ loc[t].name \notin DOMAIN pre.files
        /\ pre.idxFile = <<Marshal(pre.files)>>
        /\ pre.files # EmptyMap
        /\ \E p \in DOMAIN blobs : \A n \in DOMAIN files : files[n] # p

\* C9: when no call is in progress, every name of the map has a content file.
C9_EntriesHaveFiles ==
    Quiescent => \A n \in DOMAIN files : files[n] \in DOMAIN blobs

\* C10: CreateNewIndex on a base path that is a regular file returns an error
\* and no Index and creates neither the profiles directory nor an index file;
\* when it returns an Index and there was no index file, the map is empty and
\* the index file is written from the empty map; when it returns an Index and
\* there was an index file, the map is that file's and the file is unchanged.
C10_Open ==
    opened # <<>>
        => /\ baseKind = "file"
                => (opened = <<FALSE>> /\ ~idx /\ ~profilesDir /\ idxFile = <<>>)
           /\ idx = opened[1]
           /\ (opened = <<TRUE>> /\ pre.idxFile = <<>>)
                => (files = EmptyMap /\ idxFile = <<Marshal(EmptyMap)>>)
           /\ (opened = <<TRUE>> /\ pre.idxFile # <<>>)
                => (files = Unmarshal(pre.idxFile[1]) /\ idxFile = pre.idxFile)

\* C10 witness: a reopen that loads an index file with two entries.
C10_Witness ==
    /\ opened = <<TRUE>>
    /\ pre.idxFile # <<>>
    /\ Cardinality(DOMAIN files) = 2

----------------------------------------------------------------------------
(* The names index.json lists: the keys of its members (<<>>: none). *)
IndexFileNames(f) ==
    IF f = <<>> THEN {} ELSE {f[1].members[i].key : i \in 1..Len(f[1].members)}

\* C11: when f.Write fails in Set for a name that was not in the map, the new
\* file is deleted, the error is returned, the name is neither in the map nor
\* in the index file on disk, and the map and the index file are as before.
C11_FailedWriteLeavesNoRecord ==
    [][\A t \in Threads :
          (pc[t] = "set_write" /\ pc'[t] = "ret" /\ loc[t].isNew)
              => /\ loc'[t].res = "io"
                 /\ loc[t].path \notin DOMAIN blobs'
                 /\ loc[t].name \notin DOMAIN files'
                 /\ JSONString(loc[t].name) \notin IndexFileNames(idxFile')
                 /\ files' = pre.files
                 /\ idxFile' = pre.idxFile]_vars

\* C12: a successful Set(name, data) on a name already in the map leaves the
\* names and every path unchanged, creates no new content file and leaves
\* name's file holding exactly data; the other content files are untouched.
C12_SetExistingOverwrites ==
    \A t \in Threads :
        (Ret(t, "Set") /\ loc[t].res = "ok" /\ loc[t].name \in DOMAIN pre.files)
            => /\ files = pre.files
               /\ DOMAIN blobs = DOMAIN pre.blobs
               /\ blobs[files[loc[t].name]] = loc[t].data
               /\ \A p \in DOMAIN pre.blobs :
                      p # files[loc[t].name] => blobs[p] = pre.blobs[p]

\* C13: Apply, whether it succeeds or fails, leaves the map, the index file
\* and every content file as they were; on success the output file holds the
\* content of the profile and nothing else has changed.
C13_ApplyOnlyWritesOutput ==
    \A t \in Threads :
        Ret(t, "Apply")
            => /\ files = pre.files
               /\ idxFile = pre.idxFile
               /\ blobs = pre.blobs
               /\ loc[t].res = "ok" => acl = Content(pre.files, pre.blobs, loc[t].name)

\* C13 witness: a successful Apply that changed the output file, with two
\* profiles in the map.
C13_Witness ==
    \E t \in Threads :
        /\ Ret(t, "Apply")
        /\ loc[t].res = "ok"
        /\ acl # pre.acl
        /\ pre.acl # <<>>
        /\ Cardinality(DOMAIN files) = 2

\* C14: Remove leaves every content file in place with its content, the file
\* of the removed name included, and the name out of the map; a Set on a name
\* that is not in the map writes to a path at which no file existed, and
\* leaves the files that existed (orphaned ones included) as they were.
C14_RemoveKeepsFiles ==
    \A t \in Threads :
        /\ Ret(t, "Remove")
               => (blobs = pre.blobs /\ loc[t].name \notin DOMAIN files)
        /\ (Ret(t, "Set") /\ loc[t].name \notin DOMAIN pre.files /\ loc[t].open)
               => /\ loc[t].path \notin DOMAIN pre.blobs
                  /\ \A p \in DOMAIN pre.blobs :
                         p \in DOMAIN blobs /\ blobs[p] = pre.blobs[p]

\* C14 witness: Remove of a name whose file exists, after an earlier Remove
\* has orphaned a file and a later Set has created another file.
C14_Witness ==
    \E t \in Threads :
        /\ Ret(t, "Remove")
        /\ loc[t].res = "ok"
        /\ loc[t].name \in DOMAIN pre.files
        /\ pre.files[loc[t].name] \in DOMAIN blobs
        /\ \E p \in DOMAIN pre.blobs : \A n \in DOMAIN pre.files : pre.files[n] # p

\* C15: when no call is in progress no file handle is open; when a call has
\* reached its return, the only handle still open is the one of the call's own
\* content file, which the deferred f.Close() closes on the way out.
C15_HandlesClosed ==
    /\ Quiescent => handles = 0
    /\ \A t \in Threads :
           pc[t] = "ret" => handles = (IF loc[t].open THEN 1 ELSE 0)

\* C15 witness: no call in progress, after a Set has stored a profile, an
\* Apply has written the output and a call has failed on an I/O error.
C15_Witness ==
    /\ Quiescent
    /\ \E n \in Names : written[n] # <<>>
    /\ acl # <<>>
    /\ faults > 0
    /\ handles = 0

\* C16: with concurrent callers every call runs as if alone: while a call is
\* between Lock and its return no other caller changes the map, the index
\* file, a content file or the output, and a call that returns nil leaves
\* exactly what it produces when run alone from the state at its Lock.  So the
\* outcome is that of the calls in the order of their Locks; in particular
\* of two Sets on one absent name the second reuses the entry and the file of
\* the first: one entry, one file, holding the whole data of the second.
C16_Serializable ==
    /\ [](\A t \in Threads :
            (pc[t] = "ret" /\ loc[t].res = "ok")
                => LET c == loc[t]
                       fs == CASE c.op = "Set" ->
                                    IF c.name \in DOMAIN pre.files THEN pre.files
                                    ELSE MapPut(pre.files, c.name, c.path)
                               [] c.op = "Remove" -> MapDelete(pre.files, c.name)
                               [] c.op = "Rename" -> MoveEntry(pre.files, c.name, c.newName)
                               [] OTHER -> pre.files
                   IN  /\ files = fs
                       /\ blobs = IF c.op = "Set" THEN MapPut(pre.blobs, fs[c.name], c.data)
                                  ELSE pre.blobs
                       /\ idxFile = IF c.op \in Mutators THEN <<Marshal(fs)>> ELSE pre.idxFile
                       /\ acl = IF c.op = "Apply" THEN Content(pre.files, pre.blobs, c.name)
                                ELSE pre.acl)
    /\ [][\A t, u \in Threads :
            (t # u /\ InBody(t) /\ pc'[u] # pc[u])
                => UNCHANGED <<files, idxFile, blobs, acl, handles, nextId>>]_vars

\* C16 witness: the second of two Sets on one name returns while the other
\* caller is waiting for the lock; the first Set created the entry and stored
\* other data; there is one entry and one content file.
C16_Witness ==
    \E t, u \in Threads :
        /\ t # u
        /\ pc[t] = "lock"
        /\ Ret(u, "Set")
        /\ loc[u].res = "ok"
        /\ ~loc[u].isNew
        /\ written[loc[u].name] # <<>>
        /\ written[loc[u].name] # <<loc[u].data>>
        /\ DOMAIN files = {loc[u].name}
        /\ DOMAIN blobs = {files[loc[u].name]}
        /\ blobs[files[loc[u].name]] = loc[u].data

\* C17: no two names of the map share a content path; hence a Set, Remove or
\* rename, whatever it returns, leaves what Apply copies for every name other
\* than the ones it was called with as it was.
C17_PathsDistinct ==
    /\ \A n, m \in DOMAIN files : n # m => files[n] # files[m]
    /\ \A t \in Threads :
           (pc[t] = "ret" /\ loc[t].op \in Mutators)
               => \A n \in (DOMAIN pre.files \cup DOMAIN files) \ {loc[t].name, loc[t].newName} :
                      Content(files, blobs, n) = Content(pre.files, pre.blobs, n)

\* C17 witness: a Set that replaced the content of one of two profiles whose
\* files both exist.
C17_Witness ==
    \E t \in Threads :
        /\ Ret(t, "Set")
        /\ loc[t].res = "ok"
        /\ Cardinality(DOMAIN files) = 2
        /\ Content(files, blobs, loc[t].name) # Content(pre.files, pre.blobs, loc[t].name)
        /\ Content(pre.files, pre.blobs, loc[t].name) # <<>>
        /\ \E n \in DOMAIN files \ {loc[t].name} : Content(files, blobs, n) # <<>>

\* C18: whenever Set, Remove or RenameProfile returns an error, the failure to
\* persist the index included, the map is what it was before the call.
C18_ErrorLeavesMap ==
    \A t \in Threads :
        (pc[t] = "ret" /\ loc[t].op \in Mutators /\ loc[t].res # "ok")
            => files = pre.files

\* C19: when Apply fails because the content file cannot be opened or read,
\* the output file is what it was before the call; the output file changes
\* only in setAclData, which runs after the whole content has been read.
C19_FailedReadKeepsOutput ==
    [][/\ \A t \in Threads :
              (pc[t] \in {"ap_open", "ap_read"} /\ pc'[t] = "ret")
                  => (loc'[t].res = "io" /\ acl' = pre.acl)
       /\ acl' # acl
              => \E t \in Threads :
                     /\ pc[t] \in {"acl_create", "acl_write"}
                     /\ loc[t].path \in DOMAIN blobs
                     /\ loc[t].data = blobs[loc[t].path]]_vars

\* C19 witness: Apply returns the error of io.ReadAll; the output file written
\* by an earlier Apply is still there.
C19_Witness ==
    \E t \in Threads :
        /\ Ret(t, "Apply")
        /\ loc[t].res = "io"
        /\ loc[t].open
        /\ loc[t].data = <<>>
        /\ acl # <<>>
        /\ acl = pre.acl

\* C20: every return of Set, Remove, RenameProfile and Apply releases the
\* lock, whatever the call returns; so, when the scheduling is fair and I/O
\* terminates, every caller waiting for the lock eventually holds it and
\* every call that has started eventually returns.
C20_LockReleased ==
    /\ [][\A t \in Threads :
             (pc[t] = "ret" /\ pc'[t] = "idle") => (mu = t /\ mu' = NoThread)]_vars
    /\ \A t \in Threads :
           /\ pc[t] = "lock" ~> (InBody(t) /\ mu = t)
           /\ InBody(t) ~> pc[t] = "idle"

\* C20 witness: a call is about to return an I/O error while the other caller
\* waits for the lock.
C20_Witness ==
    \E t, u \in Threads :
        /\ pc[t] = "lock"
        /\ pc[u] = "ret"
        /\ loc[u].res = "io"
        /\ mu = u

====
